---- MODULE Spec2Model ----
(***************************************************************************)
(* The EduSmart AI gateway: an Express server that forwards educational    *)
(* content requests to the OpenRouter completion API.  The repository      *)
(* holds two variants of the server:                                       *)
(*   "server"  - src/backend/server.js  (one shared credential)            *)
(*   "part000" - src/unnamed/part_000   (one credential per task group)    *)
(* A behaviour runs one of them.  Node runs every callback to completion,  *)
(* so a request takes two steps: the synchronous part from arrival to the  *)
(* await of the upstream call, and the continuation once that call has     *)
(* settled.                                                                *)
(***************************************************************************)
EXTENDS Integers, Sequences, FiniteSets, TLC

VARIABLES
  variant,  \* which of the two servers runs
  env,      \* the required credentials process.env defines
  phase,    \* "starting", "listening" or "exited"
  hits,     \* the limiter's store: requests counted per client in its window
  window,   \* history, per client and window: what was received and admitted
  reqs      \* the requests: idle, awaiting the upstream call, or done

vars == <<variant, env, phase, hits, window, reqs>>

Variants == {"server", "part000"}

-----------------------------------------------------------------------------
(* Bounds of the model.                                                    *)

\* requests of one run of Spec
MaxReq == 2
\* connections open at once in SpecLimiter (each is reused once answered)
MaxConn == 2
\* requests a client still sends after the limiter has begun to reject it
MaxOver == 2
\* requests of the second, light client in one window
MaxLight == 1
\* requests a client sends in one window to endpoints outside the limiter
MaxFree == 1

-----------------------------------------------------------------------------
(* Text.  A string is a sequence of one-character strings; a value that    *)
(* may be undefined is [has, val].                                         *)

Undefined == [has |-> FALSE, val |-> <<>>]

Some(s) == [has |-> TRUE, val |-> s]

\* JavaScript truthiness of a string-or-undefined value
Truthy(x) == x.has /\ x.val # <<>>

\* `${x}` in a template literal
TemplateStr(x) == IF x.has THEN x.val ELSE <<"u", "n", "d", "e", "f", "i", "n", "e", "d">>

\* the characters that occur in the modelled titles
AsciiLower ==
  {"a", "d", "e", "f", "g", "h", "i", "l", "m", "n", "o", "p", "q", "r", "s", "t", "u", "w", "z"}

AsciiUpper == {"A", "H", "L", "Q"}

AsciiDigits == {"2"}

\* String.prototype.toLowerCase on one character
ToLowerChar(c) ==
  CASE c = "A" -> "a"
    [] c = "H" -> "h"
    [] c = "L" -> "l"
    [] c = "Q" -> "q"
    [] c = "É" -> "é"
    [] OTHER -> c

ToLowerCase(s) == [i \in DOMAIN s |-> ToLowerChar(s[i])]

\* the character class of server.js: [a-zA-Z0-9]
KeptByServer(c) == c \in AsciiLower \cup AsciiUpper \cup AsciiDigits

\* the character class of part_000: [a-z0-9]
KeptByPart000(c) == c \in AsciiLower \cup AsciiDigits

\* the character class of the variant's regular expression
Kept(v, c) == IF v = "server" THEN KeptByServer(c) ELSE KeptByPart000(c)

\* s.replace(/[^...]/g, '-')
ReplaceAllOutside(v, s) == [i \in DOMAIN s |-> IF Kept(v, s[i]) THEN s[i] ELSE "-"]

\* s.replace(/[^...]/, '-'): without the g flag only the first match is replaced
ReplaceFirstOutside(v, s) ==
  [i \in DOMAIN s |->
     IF ~Kept(v, s[i]) /\ (\A j \in 1..(i - 1) : Kept(v, s[j])) THEN "-" ELSE s[i]]

FileStemFirstOnly(v, title) == ReplaceFirstOutside(v, ToLowerCase(title))

\* title.toLowerCase().replace(/[^a-zA-Z0-9]/g, '-')
FileStem(v, title) == ReplaceAllOutside(v, ToLowerCase(title))

IsSpace(c) == c = " "

RECURSIVE TrimLeft(_)
TrimLeft(s) == IF s # <<>> /\ IsSpace(Head(s)) THEN TrimLeft(Tail(s)) ELSE s

RECURSIVE TrimRight(_)
TrimRight(s) ==
  IF s # <<>> /\ IsSpace(s[Len(s)]) THEN TrimRight(SubSeq(s, 1, Len(s) - 1)) ELSE s

\* String.prototype.trim
Trim(s) == TrimRight(TrimLeft(s))

-----------------------------------------------------------------------------
(* Configuration.                                                          *)

\* process.env names the variant reads at startup and refuses to start without
RequiredKeys(v) ==
  IF v = "server" THEN {"OPENROUTER_API_KEY"}
  ELSE {"OPENROUTER_KEY_FOR_SHORT_ANSWER", "OPENROUTER_KEY_FOR_ASSIGNMENT",
        "OPENROUTER_KEY_FOR_LONG_ANSWER", "OPENROUTER_KEY_FOR_ALL_IN_ONE"}

CredentialsAnyPresent(v, e) == \E k \in RequiredKeys(v) : k \in e

\* the startup check: if (!KEY ...) process.exit(1)
CredentialsPresent(v, e) == \A k \in RequiredKeys(v) : k \in e

\* rateLimit({ windowMs: 15 * 60 * 1000, max: 100 })
max == 100

Clients == {"c1", "c2"}

Methods == {"GET", "POST"}

GenerationPaths ==
  {"/generate-assignment", "/generate-long-answer", "/generate-short-answer",
   "/generate-quiz", "/fix-grammar", "/chat"}

\* the paths of the model: the routes, one unrouted path under /generate- and one outside
Paths == GenerationPaths \cup {"/health", "/", "/generate-notes", "/nope"}

\* app.use('/generate-*', limiter): the paths the limiter is mounted on
LimiterMounted(path) ==
  path \in {"/generate-assignment", "/generate-long-answer", "/generate-short-answer",
            "/generate-quiz", "/generate-notes"}

\* the routes each variant registers, as <<method, path>>
Routes(v) ==
  {<<"POST", p>> : p \in GenerationPaths}
    \cup (IF v = "server" THEN {<<"GET", "/health">>, <<"GET", "/">>} ELSE {})

\* the third argument each handler passes to generateAIResponse
TaskOf(path) ==
  CASE path = "/generate-assignment" -> "assignment"
    [] path = "/generate-long-answer" -> "long"
    [] path = "/generate-short-answer" -> "short"
    [] path = "/generate-quiz" -> "quiz"
    [] path = "/fix-grammar" -> "grammar"
    [] path = "/chat" -> "chat"

\* the 400 message of each handler of server.js
RequiredMessage(path) ==
  CASE path = "/generate-quiz" -> "Topic is required"
    [] path = "/fix-grammar" -> "Text is required"
    [] path = "/chat" -> "Message is required"
    [] OTHER -> "Prompt is required"

\* the handlers that test req.query.download === 'pdf'
ExportsPdf(v, path) ==
  path \in {"/generate-assignment", "/generate-long-answer"}
    \/ (v = "server" /\ path = "/generate-quiz")

\* the title each exporting handler passes to generatePDF, without the prompt
TitlePrefix(path) ==
  CASE path = "/generate-assignment" ->
         <<"A", "s", "s", "i", "g", "n", "m", "e", "n", "t", " ", "-", " ">>
    [] path = "/generate-long-answer" ->
         <<"L", "o", "n", "g", " ", "A", "n", "s", "w", "e", "r", " ", "-", " ">>
    [] path = "/generate-quiz" -> <<"Q", "u", "i", "z", " ", "-", " ">>

\* `Assignment - ${prompt}`
TitleOf(path, prompt) == TitlePrefix(path) \o TemplateStr(prompt)

\* modelMap of server.js
modelMap ==
  [assignment |-> "google/gemini-2.0-flash-exp:free",
   long |-> "google/gemini-2.0-flash-exp:free",
   short |-> "qwen/qwen3-coder:free",
   quiz |-> "z-ai/glm-4.5-air:free",
   grammar |-> "qwen/qwen3-coder:free",
   chat |-> "z-ai/glm-4.5-air:free",
   auto |-> "google/gemini-2.0-flash-exp:free"]

\* taskConfig of part_000
taskConfig ==
  [short |-> [model |-> "google/gemma-3n-e2b-it:free", keyName |-> "SHORT_ANSWER"],
   assignment |-> [model |-> "google/gemini-2.0-flash-exp:free", keyName |-> "ASSIGNMENT"],
   long |-> [model |-> "qwen/qwen3-coder:free", keyName |-> "LONG_ANSWER"],
   quiz |-> [model |-> "z-ai/glm-4.5-air:free", keyName |-> "ALL_IN_ONE"],
   grammar |-> [model |-> "z-ai/glm-4.5-air:free", keyName |-> "ALL_IN_ONE"],
   chat |-> [model |-> "z-ai/glm-4.5-air:free", keyName |-> "ALL_IN_ONE"]]

\* the credential each client of the variant is built with
KeyOfTask(v, task) ==
  IF v = "server" THEN "OPENROUTER_API_KEY"
  ELSE "OPENROUTER_KEY_FOR_" \o taskConfig[task].keyName

-----------------------------------------------------------------------------
(* The Response Generator: generateAIResponse(prompt, context, task).      *)

\* the context every handler builds is a non-empty template string
HandlerContext == Some(<<"c">>)

NoStart == [threw |-> FALSE, error |-> "", model |-> "", key |-> ""]

Throws(msg) == [threw |-> TRUE, error |-> msg, model |-> "", key |-> ""]

Calls(model, key) == [threw |-> FALSE, error |-> "", model |-> model, key |-> key]

\* server.js: modelMap[modelPreference] || modelMap.auto
ModelFor(task) == IF task \in DOMAIN modelMap THEN modelMap[task] ELSE modelMap.auto

\* server.js, up to the await: the argument check, then the model lookup
GenerateStartServer(prompt, context, task) ==
  IF ~Truthy(prompt) \/ ~Truthy(context) THEN Throws("Prompt and context are required")
  ELSE Calls(ModelFor(task), "OPENROUTER_API_KEY")

\* part_000, up to the await: the taskConfig lookup
GenerateStartPart000(prompt, context, task) ==
  IF task \notin DOMAIN taskConfig THEN Throws("Unknown task type: " \o task)
  ELSE Calls(taskConfig[task].model, KeyOfTask("part000", task))

GenerateStart(v, prompt, context, task) ==
  IF v = "server" THEN GenerateStartServer(prompt, context, task)
  ELSE GenerateStartPart000(prompt, context, task)

\* What the upstream call settles with: a completion whose first choice has the
\* content (undefined when it is missing), or an error with an HTTP status
\* (0 when the error carries none) and the upstream's own message.
Contents == {Undefined, Some(<<>>), Some(<<" ">>), Some(<<"o", "k", " ">>), Some(<<"n", "o">>)}

Completions ==
  {[ok |-> TRUE, content |-> c, status |-> 200, payload |-> ""] : c \in Contents}

Failures ==
  {[ok |-> FALSE, content |-> Undefined, status |-> st, payload |-> "raw upstream error"] :
     st \in {401, 429, 404, 500, 0}}

Outcomes == Completions \cup Failures

NoOutcome == [ok |-> FALSE, content |-> Undefined, status |-> -1, payload |-> ""]

Returned(text, model) == [threw |-> FALSE, error |-> "", text |-> text, modelUsed |-> model]

Rejected(msg) == [threw |-> TRUE, error |-> msg, text |-> <<>>, modelUsed |-> ""]

\* server.js: the catch block turns whatever was thrown in the try into a message
\* chosen by error.status
CatchServer(status, model) ==
  CASE status = 401 -> "Authentication failed. Please check your API key configuration."
    [] status = 429 -> "Rate limit exceeded. Please try again later."
    [] status = 404 -> "Model '" \o model \o "' not found."
    [] OTHER -> "AI service is currently unavailable. Please try again later."

\* part_000: the catch block names the key of the task and nothing else
CatchPart000(task) == "AI se response lene mein error: " \o taskConfig[task].keyName

\* server.js, after the await.  The empty-content Error is thrown inside the try,
\* so the catch receives it: an Error without a status.
GenerateSettleServer(start, outcome) ==
  IF outcome.ok THEN
    IF Truthy(outcome.content) THEN Returned(outcome.content.val, start.model)
    ELSE Rejected(CatchServer(0, start.model))
  ELSE Rejected(CatchServer(outcome.status, start.model))

\* part_000, after the await: content?.trim(), the same throw inside the try
GenerateSettlePart000(start, task, outcome) ==
  IF outcome.ok THEN
    IF outcome.content.has /\ Trim(outcome.content.val) # <<>>
    THEN Returned(Trim(outcome.content.val), start.model)
    ELSE Rejected(CatchPart000(task))
  ELSE Rejected(CatchPart000(task))

GenerateSettle(v, start, task, outcome) ==
  IF v = "server" THEN GenerateSettleServer(start, outcome)
  ELSE GenerateSettlePart000(start, task, outcome)

-----------------------------------------------------------------------------
(* Responses.                                                              *)

\* sends: how many times the response has been sent and ended
NoResp ==
  [status |-> 0, ctype |-> "", filename |-> <<>>, body |-> "", error |-> "",
   text |-> <<>>, model |-> "", sends |-> 0]

\* res.status(code).json(obj) on a response without a Content-Type
Json(status, body) ==
  [NoResp EXCEPT !.status = status, !.ctype = "application/json", !.body = body, !.sends = 1]

\* res.status(code).json({ error: msg })
JsonError(status, msg) == [Json(status, "error") EXCEPT !.error = msg]

\* res.json({ ...result, ... })
JsonResult(gen) == [Json(200, "generation") EXCEPT !.text = gen.text, !.model = gen.modelUsed]

\* the limiter's rejection: 429 and the configured message as text
TooManyRequests ==
  [NoResp EXCEPT !.status = 429, !.ctype = "text/html", !.body = "too-many-requests",
                 !.sends = 1]

\* server.js: app.use('*') answers 404 with availableEndpoints; part_000 registers
\* no such handler, so Express's own final handler answers "Cannot GET /path"
NotFound(v) ==
  IF v = "server" THEN [Json(404, "endpoint-list") EXCEPT !.error = "Endpoint not found"]
  ELSE [NoResp EXCEPT !.status = 404, !.ctype = "text/html", !.body = "cannot-method-path",
                      !.sends = 1]

\* the keys of features in the /health body
HealthFeatures ==
  {"assignmentGenerator", "longAnswer", "shortAnswer", "quizGenerator", "grammarFixer",
   "aiTutorChat", "pdfExport"}

Health == Json(200, "health")

Root == Json(200, "index")

PdfSuffix == <<".", "p", "d", "f">>

\* generatePDF: the two headers are set and the document piped before anything is
\* drawn.  When everything is drawn, doc.end() ends the piped response.  An
\* exception while drawing skips doc.end() and reaches the catch, which answers
\* res.status(500).json(...): res.json sets a Content-Type only when none is set,
\* so the JSON body leaves under the headers already set
GeneratePDF(v, content, title, renders) ==
  LET headers == [NoResp EXCEPT !.ctype = "application/pdf",
                                !.filename = FileStem(v, title) \o PdfSuffix]
  IN IF renders
     THEN [headers EXCEPT !.status = 200, !.body = "pdf", !.text = content, !.sends = 1]
     ELSE [headers EXCEPT !.status = 500, !.body = "error", !.sends = 1,
                          !.error = IF v = "server" THEN "Failed to generate PDF document"
                                    ELSE "PDF banane mein dikkat hui."]

-----------------------------------------------------------------------------
(* Requests.                                                               *)

\* the required text field of the body: absent, empty, or a text
Fields == {Undefined, Some(<<>>), Some(<<"p", "H", "2", "?", "É">>)}

NoInput == [client |-> "", method |-> "", path |-> "", field |-> Undefined, pdf |-> FALSE]

NoArgs == [prompt |-> Undefined, context |-> Undefined, task |-> ""]

\* POSTs to the six generation endpoints, with or without ?download=pdf
PostInputs(C) ==
  [client : C, method : {"POST"}, path : GenerationPaths, field : Fields, pdf : BOOLEAN]

\* every other method and path, without a body
BareInputs(C) ==
  {i \in [client : C, method : Methods, path : Paths, field : {Undefined}, pdf : {FALSE}] :
     ~(i.method = "POST" /\ i.path \in GenerationPaths)}

\* well-formed POSTs to one endpoint behind the limiter and one outside it
PlainInputs(C) ==
  [client : C, method : {"POST"}, path : {"/generate-quiz", "/chat"},
   field : {Some(<<"p", "H", "2", "?", "É">>)}, pdf : {FALSE}]

\* a caller of the exported generateAIResponse, outside any HTTP request
DirectCall == [NoInput EXCEPT !.method = "CALL", !.path = "generateAIResponse"]

\* the arguments of a direct call: two of the six task types, the default "auto"
\* of server.js and a task type neither table has
DirectArgs ==
  [prompt : {Undefined, Some(<<"p">>)}, context : {Some(<<>>), HandlerContext},
   task : {"short", "quiz", "auto", "essay"}]

Idle ==
  [st |-> "idle", in |-> NoInput, args |-> NoArgs, start |-> NoStart, calls |-> 0,
   up |-> NoOutcome, resp |-> NoResp]

\* the request has been answered without an upstream call
Answered(in, resp) == [Idle EXCEPT !.st = "done", !.in = in, !.resp = resp]

\* a call of generateAIResponse by a handler or a direct caller: either it throws
\* before the await, and the caller's catch answers 500 with the message, or the
\* upstream call is issued and the request waits for it
Invoke(v, in, args) ==
  LET start == GenerateStart(v, args.prompt, args.context, args.task)
  IN IF start.threw
     THEN [Answered(in, JsonError(500, start.error)) EXCEPT !.args = args, !.start = start]
     ELSE [Idle EXCEPT !.st = "awaiting", !.in = in, !.args = args, !.start = start,
                       !.calls = 1]

\* the handlers of server.js: if (!prompt) return res.status(400).json(...)
PostHandlerServer(in) ==
  IF ~Truthy(in.field) THEN Answered(in, JsonError(400, RequiredMessage(in.path)))
  ELSE Invoke("server", in,
              [prompt |-> in.field, context |-> HandlerContext, task |-> TaskOf(in.path)])

\* the handlers of part_000 pass req.body's field on as it is
PostHandlerPart000(in) ==
  Invoke("part000", in,
         [prompt |-> in.field, context |-> HandlerContext, task |-> TaskOf(in.path)])

\* Express routing after the limiter
Dispatch(v, in) ==
  IF <<in.method, in.path>> \notin Routes(v) THEN Answered(in, NotFound(v))
  ELSE IF in.path = "/health" THEN Answered(in, Health)
  ELSE IF in.path = "/" THEN Answered(in, Root)
  ELSE IF v = "server" THEN PostHandlerServer(in)
  ELSE PostHandlerPart000(in)

\* the rest of a handler once generateAIResponse has settled
HandlerContinue(v, in, gen, renders) ==
  IF gen.threw THEN JsonError(500, gen.error)
  ELSE IF ExportsPdf(v, in.path) /\ in.pdf
       THEN GeneratePDF(v, gen.text, TitleOf(in.path, in.field), renders)
  ELSE JsonResult(gen)

\* what a direct caller gets: the resolved result or the rejection
DirectResult(gen) ==
  IF gen.threw THEN [NoResp EXCEPT !.body = "rejected", !.error = gen.error]
  ELSE [NoResp EXCEPT !.body = "resolved", !.text = gen.text, !.model = gen.modelUsed]

LimiterRejectsPastNext(count) == count > max + 1

\* the limiter's store holds one counter per req.ip, incremented for every request
\* on the mount; the request is rejected once the counter is past max
LimiterRejects(count) == count > max

\* keyGenerator: the default key is req.ip
LimiterKey(ip) == ip

-----------------------------------------------------------------------------
(* History of a client's current window.  seen: requests received on the   *)
(* limiter's mount; passed: those the limiter let through; free: POSTs to  *)
(* a generation endpoint outside the mount; gen: POSTs to a generation     *)
(* endpoint that reached their handler.                                    *)

NoHistory == [seen |-> 0, passed |-> 0, free |-> 0, gen |-> 0]

IsGeneration(in) == in.method = "POST" /\ in.path \in GenerationPaths

Bump(n, cond) == IF cond THEN n + 1 ELSE n

Record(h, in, rejected) ==
  [seen |-> Bump(h.seen, LimiterMounted(in.path)),
   passed |-> Bump(h.passed, LimiterMounted(in.path) /\ ~rejected),
   free |-> Bump(h.free, IsGeneration(in) /\ ~LimiterMounted(in.path)),
   gen |-> Bump(h.gen, IsGeneration(in) /\ ~rejected)]

\* how many requests a client sends on the mount in one window of SpecLimiter:
\* the first client runs past the quota, the second stays far below it
Cap(c) == IF c = "c1" THEN max + MaxOver ELSE MaxLight

\* the requests a client of SpecLimiter may still send in its window
WithinCaps(in) ==
  IF LimiterMounted(in.path) THEN window[in.client].seen < Cap(in.client)
  ELSE window[in.client].free < MaxFree

-----------------------------------------------------------------------------
(* Actions.                                                                *)

InitWith(n) ==
  /\ variant \in Variants
  /\ env \in SUBSET RequiredKeys(variant)
  /\ phase = "starting"
  /\ hits = [c \in Clients |-> 0]
  /\ window = [c \in Clients |-> NoHistory]
  /\ reqs = [r \in 1..n |-> Idle]

Init == InitWith(MaxReq)

InitLimiter == InitWith(MaxConn)

\* a required credential is missing: console.error, process.exit(1)
ExitMissingCredential ==
  /\ phase = "starting"
  /\ ~CredentialsPresent(variant, env)
  /\ phase' = "exited"
  /\ UNCHANGED <<variant, env, hits, window, reqs>>

\* the module runs to its end: app.listen
StartListening ==
  /\ phase = "starting"
  /\ CredentialsPresent(variant, env)
  /\ phase' = "listening"
  /\ UNCHANGED <<variant, env, hits, window, reqs>>

\* A request arrives and runs up to its first await: the limiter (on its mount),
\* routing, and the handler up to the upstream call.
Receive(r, in) ==
  /\ phase = "listening"
  /\ reqs[r].st = "idle"
  /\ LET key == LimiterKey(in.client)
         count == hits[key] + 1
         rejected == LimiterMounted(in.path) /\ LimiterRejects(count)
     IN /\ hits' = IF LimiterMounted(in.path) THEN [hits EXCEPT ![key] = count] ELSE hits
        /\ window' = [window EXCEPT ![in.client] = Record(@, in, rejected)]
        /\ reqs' = [reqs EXCEPT ![r] = IF rejected THEN Answered(in, TooManyRequests)
                                       ELSE Dispatch(variant, in)]
  /\ UNCHANGED <<variant, env, phase>>

\* generateAIResponse is called directly, as the module exports it
Call(r, args) ==
  /\ phase = "listening"
  /\ reqs[r].st = "idle"
  /\ LET q == Invoke(variant, DirectCall, args)
     IN reqs' = [reqs EXCEPT ![r] =
                   IF q.st = "done" THEN [q EXCEPT !.resp = DirectResult(Rejected(q.start.error))]
                   ELSE q]
  /\ UNCHANGED <<variant, env, phase, hits, window>>

\* a result kept across requests: the handler answers with the result of a
\* request that has already been served when there is one
SettleReusing(r, outcome, renders) ==
  /\ reqs[r].st = "awaiting"
  /\ LET q == reqs[r]
         served == {o \in DOMAIN reqs : reqs[o].st = "done" /\ reqs[o].up.ok}
         used == IF served = {} THEN outcome ELSE reqs[CHOOSE o \in served : TRUE].up
         gen == GenerateSettle(variant, q.start, q.args.task, used)
     IN reqs' = [reqs EXCEPT ![r] =
                   [q EXCEPT !.st = "done", !.up = outcome,
                             !.resp = IF q.in.method = "CALL" THEN DirectResult(gen)
                                      ELSE HandlerContinue(variant, q.in, gen, renders)]]
  /\ UNCHANGED <<variant, env, phase, hits, window>>

\* The upstream call of request r settles with outcome, and the request runs to
\* its end; renders: whether pdfkit draws the document without throwing.
Settle(r, outcome, renders) ==
  /\ reqs[r].st = "awaiting"
  /\ LET q == reqs[r]
         gen == GenerateSettle(variant, q.start, q.args.task, outcome)
     IN reqs' = [reqs EXCEPT ![r] =
                   [q EXCEPT !.st = "done", !.up = outcome,
                             !.resp = IF q.in.method = "CALL" THEN DirectResult(gen)
                                      ELSE HandlerContinue(variant, q.in, gen, renders)]]
  /\ UNCHANGED <<variant, env, phase, hits, window>>

\* windowMs has passed since the client's first counted request: its counter is reset
WindowExpire(c) ==
  /\ hits[c] > 0 \/ window[c] # NoHistory
  /\ hits' = [hits EXCEPT ![c] = 0]
  /\ window' = [window EXCEPT ![c] = NoHistory]
  /\ UNCHANGED <<variant, env, phase, reqs>>

\* the connection of an answered request is closed and serves a new request
Close(r) ==
  /\ reqs[r].st = "done"
  /\ reqs' = [reqs EXCEPT ![r] = Idle]
  /\ UNCHANGED <<variant, env, phase, hits, window>>

\* Spec: request 1 is any request or direct call; the others are plain POSTs
\* running beside it.  All come from one client within one window.
InputsOf(r) ==
  IF r = 1 THEN PostInputs({"c1"}) \cup BareInputs({"c1"}) ELSE PlainInputs({"c1"})

Next ==
  \/ ExitMissingCredential
  \/ StartListening
  \/ \E r \in DOMAIN reqs : \E in \in InputsOf(r) : Receive(r, in)
  \/ \E args \in DirectArgs : Call(1, args)
  \/ \E r \in DOMAIN reqs : \E outcome \in Outcomes : \E renders \in BOOLEAN :
        Settle(r, outcome, renders)

Spec == Init /\ [][Next]_vars

\* SpecLimiter: both clients send plain POSTs over connections that are reused,
\* for as many windows as they like; the upstream answers every call.
LimiterInputs ==
  PlainInputs({"c1"}) \cup {i \in PlainInputs({"c2"}) : LimiterMounted(i.path)}

LimiterOutcomes == {o \in Outcomes : o.content = Some(<<"n", "o">>)}

NextLimiter ==
  \/ ExitMissingCredential
  \/ StartListening
  \/ \E r \in DOMAIN reqs : \E in \in LimiterInputs : WithinCaps(in) /\ Receive(r, in)
  \/ \E r \in DOMAIN reqs : \E outcome \in LimiterOutcomes : Settle(r, outcome, TRUE)
  \/ \E r \in DOMAIN reqs : Close(r)
  \/ \E c \in Clients : WindowExpire(c)

SpecLimiter == InitLimiter /\ [][NextLimiter]_vars

-----------------------------------------------------------------------------
(* The vocabulary of the claims.                                           *)

Min(a, b) == IF a < b THEN a ELSE b

Live == {r \in DOMAIN reqs : reqs[r].st # "idle"}

Done == {r \in DOMAIN reqs : reqs[r].st = "done"}

DoneHttp == {r \in Done : reqs[r].in.method \in Methods}

\* the failure kinds of the specification, by the message the code raises
KindOf(msg) ==
  CASE msg \in {"Prompt is required", "Topic is required", "Text is required",
                "Message is required"} -> "InvalidRequest"
    [] msg \in {"Empty response from AI model", "AI response khaali mila."} ->
         "EmptyModelResponse"
    [] msg = "Authentication failed. Please check your API key configuration." ->
         "Unauthorized"
    [] msg = "Rate limit exceeded. Please try again later." -> "RateLimited"
    [] msg \in {"Model '" \o modelMap[t] \o "' not found." : t \in DOMAIN modelMap} ->
         "ModelNotFound"
    [] msg = "AI service is currently unavailable. Please try again later." ->
         "UpstreamUnavailable"
    [] msg \in {"AI se response lene mein error: " \o taskConfig[t].keyName :
                  t \in DOMAIN taskConfig} -> "UpstreamUnavailable"
    [] msg \in {"Unknown task type: auto", "Unknown task type: essay"} ->
         "UnknownTaskType"
    [] OTHER -> "Other"

\* the kind the specification assigns to an upstream status
KindOfStatus(status) ==
  CASE status = 401 -> "Unauthorized"
    [] status = 429 -> "RateLimited"
    [] status = 404 -> "ModelNotFound"
    [] OTHER -> "UpstreamUnavailable"

\* the task types that have an entry in the variant's table
ConfiguredTasks == IF variant = "server" THEN DOMAIN modelMap ELSE DOMAIN taskConfig

\* the upstream call of r completed with content the variant accepts
GenerationSucceeded(r) ==
  /\ reqs[r].up.ok
  /\ reqs[r].up.content.has
  /\ IF variant = "server" THEN reqs[r].up.content.val # <<>>
     ELSE Trim(reqs[r].up.content.val) # <<>>

\* name is title with every character outside [a-z0-9] of its lower-case form
\* replaced by "-", followed by ".pdf"
SanitizedFrom(name, title) ==
  /\ Len(name) = Len(title) + Len(PdfSuffix)
  /\ SubSeq(name, Len(title) + 1, Len(name)) = PdfSuffix
  /\ \A i \in 1..Len(title) :
       /\ name[i] \in AsciiLower \cup AsciiDigits \cup {"-"}
       /\ title[i] \in AsciiLower \cup AsciiDigits => name[i] = title[i]
       /\ title[i] \in AsciiUpper => name[i] \in AsciiLower
       /\ name[i] = "-" <=> title[i] \notin AsciiLower \cup AsciiUpper \cup AsciiDigits

-----------------------------------------------------------------------------
(* The claims.                                                             *)

\* C1.  A POST to a generation endpoint whose required text field is missing or
\* empty is answered 400, and no upstream completion call is made for it.
C1_MissingFieldRejected ==
  \A r \in Live :
    (IsGeneration(reqs[r].in) /\ ~Truthy(reqs[r].in.field)) =>
      /\ reqs[r].calls = 0
      /\ reqs[r].st = "done"
      /\ reqs[r].resp.status = 400

\* C2.  When the upstream completion has empty or missing content, the generator
\* fails with the kind EmptyModelResponse and the endpoint answers 500; no
\* endpoint answers 200 with an empty text.
C2_EmptyContentKind ==
  \A r \in DoneHttp :
    /\ (reqs[r].up.ok /\ ~Truthy(reqs[r].up.content)) =>
         /\ reqs[r].resp.status = 500
         /\ KindOf(reqs[r].resp.error) = "EmptyModelResponse"
    /\ (reqs[r].resp.status = 200 /\ reqs[r].resp.body = "generation") =>
         reqs[r].resp.text # <<>>

\* C3, as stated.  Per client and window at most 100 requests to the generation
\* endpoints are admitted: the 101st to any of them is rejected.
C3_QuotaOnGenerationEndpoints == \A c \in Clients : window[c].gen <= max

\* C3, amended.  Per client and limiter window, every request on the limiter's
\* mount /generate-* is counted once; the first 100 pass and each later one is
\* answered 429 without reaching a handler or an upstream call.  /fix-grammar and
\* /chat are outside the mount and are never answered 429.
C3_QuotaOnLimiterMount ==
  /\ \A c \in Clients :
       /\ hits[c] = window[c].seen
       /\ window[c].passed = Min(window[c].seen, max)
  /\ \A r \in Live :
       /\ reqs[r].resp.status = 429 =>
            /\ LimiterMounted(reqs[r].in.path)
            /\ reqs[r].st = "done"
            /\ reqs[r].calls = 0
            /\ reqs[r].args = NoArgs
            /\ reqs[r].start = NoStart
       /\ ~LimiterMounted(reqs[r].in.path) => reqs[r].resp.status # 429

\* the first client is past its quota and has just been rejected, while a request
\* of the second client has passed the limiter in the same state
C3_Witness ==
  /\ hits["c1"] > max
  /\ window["c1"].passed = max
  /\ \E r \in Done : reqs[r].in.client = "c1" /\ reqs[r].resp.status = 429
  /\ \E r \in Live : reqs[r].in.client = "c2" /\ reqs[r].calls = 1

C5_FailureKindByStatus ==
  \A r \in DoneHttp :
    (reqs[r].calls = 1 /\ ~reqs[r].up.ok) =>
      /\ reqs[r].resp.status = 500
      /\ reqs[r].resp.body = "error"
      /\ KindOf(reqs[r].resp.error) = KindOfStatus(reqs[r].up.status)
      /\ reqs[r].resp.error # reqs[r].up.payload

\* C6.  generate(prompt, context, taskType) with a taskType that has no entry in
\* the configuration table fails with UnknownTaskType and makes no upstream call;
\* no other model is substituted.
C6_UnknownTaskTypeFails ==
  \A r \in Live :
    (reqs[r].args # NoArgs /\ reqs[r].args.task \notin ConfiguredTasks
       /\ Truthy(reqs[r].args.prompt) /\ Truthy(reqs[r].args.context)) =>
      /\ reqs[r].calls = 0
      /\ reqs[r].start.model = ""
      /\ reqs[r].st = "done"
      /\ KindOf(reqs[r].resp.error) = "UnknownTaskType"

\* C7.  If a required credential is absent at startup the process never listens
\* and never serves a request.
C7_NoServiceWithoutCredentials ==
  (\E k \in RequiredKeys(variant) : k \notin env) =>
    /\ phase \in {"starting", "exited"}
    /\ Live = {}

\* part_000 has exited with some, but not all, of its four keys defined
C7_Witness == variant = "part000" /\ env # {} /\ phase = "exited"

\* C8.  A request whose method and path match no route (of either server) is
\* answered 404 with a body listing the valid endpoints.
C8_UnmatchedListsEndpoints ==
  \A r \in DoneHttp :
    (\A v \in Variants : <<reqs[r].in.method, reqs[r].in.path>> \notin Routes(v)) =>
      /\ reqs[r].resp.status = 404
      /\ reqs[r].resp.body = "endpoint-list"

\* C9.  GET /health is answered 200 with the health body in every state of the
\* server.
C9_HealthAlways200 ==
  \A r \in DoneHttp :
    (reqs[r].in.method = "GET" /\ reqs[r].in.path = "/health") =>
      /\ reqs[r].resp.status = 200
      /\ reqs[r].resp.body = "health"

ExportFailed(r) ==
  /\ reqs[r].calls = 1
  /\ GenerationSucceeded(r)
  /\ ExportsPdf(variant, reqs[r].in.path) /\ reqs[r].in.pdf
  /\ reqs[r].resp.body # "pdf"

\* C11.  Every answered request has been sent exactly one response; when the
\* export of the document fails after a successful generation, that response is
\* a JSON error with status 500, and it does not leave under an application/pdf
\* Content-Type.
C11_ExportFailureOneJsonError ==
  \A r \in DoneHttp :
    /\ reqs[r].resp.sends = 1
    /\ ExportFailed(r) =>
         /\ reqs[r].resp.status = 500
         /\ reqs[r].resp.body = "error"
         /\ reqs[r].resp.ctype # "application/pdf"

====
